---- MODULE Spec2Model ----
(***************************************************************************)
(* pytineye: the request signer of src/pytineye/api_request.py and the     *)
(* client of src/pytineye/api.py.                                          *)
(*                                                                         *)
(* Spec, SpecGetSignature and SpecApi run one call at a time; SpecRequest  *)
(* and SpecThreads run the calls of threads on one instance, and there     *)
(* op, pc, args, frame, ret and raised are functions of the thread.        *)
(*                                                                         *)
(* A Python str is a sequence of one-character strings                     *)
(* ("GET" is <<"G","E","T">>); the model's characters are printable ASCII. *)
(* A Python dict is the sequence of its entries in insertion order, with   *)
(* pairwise distinct keys. None and bytes are tagged records.              *)
(***************************************************************************)
EXTENDS Integers, Sequences, FiniteSets, TLC

VARIABLES
    api_url,        \* APIRequest.api_url
    public_key,     \* APIRequest.public_key: [kind, s], kind "str" or "None"
    private_key,    \* APIRequest.private_key
    op,             \* the method of APIRequest that ran last (or is running)
    pc,             \* "idle", the place inside the call, "done", "raised"
    args,           \* the arguments of that call
    frame,          \* the local variables of that call
    ret,            \* its return value, when pc = "done"
    raised,         \* the exception type it raised, when pc = "raised"
    default_params, \* the dict that is the default of request_params
    api_key,        \* TinEyeAPIRequest.api_key
    http_pool       \* the requests the running call has handed to http_pool

vars == <<api_url, public_key, private_key, op, pc, args, frame, ret, raised,
          default_params, api_key, http_pool>>

-----------------------------------------------------------------------------
(* Characters and the string functions of Python the signer calls.          *)

\* chr(32) .. chr(126); the grave accent, chr(96), is written "chr(96)"
Printable == <<" ","!","\"","#","$","%","&","'","(",")","*","+",",","-",".","/","0","1","2","3","4","5","6","7","8","9",":",";","<","=",">","?","@","A","B","C","D","E","F","G","H","I","J","K","L","M","N","O","P","Q","R","S","T","U","V","W","X","Y","Z","[","\\","]","^","_","chr(96)","a","b","c","d","e","f","g","h","i","j","k","l","m","n","o","p","q","r","s","t","u","v","w","x","y","z","{","|","}","~">>

CharSet == {Printable[i] : i \in 1..Len(Printable)}

OrdTable == [c \in CharSet |-> 31 + CHOOSE i \in 1..Len(Printable) : Printable[i] = c]

\* ord(c)
Ord(c) == OrdTable[c]

\* chr(n)
Chr(n) == Printable[n - 31]

HexDigits == <<"0","1","2","3","4","5","6","7","8","9","A","B","C","D","E","F">>

Digits == <<"0","1","2","3","4","5","6","7","8","9">>

\* urllib.parse._ALWAYS_SAFE: letters, digits and _ . - ~
ALWAYS_SAFE == {"A","B","C","D","E","F","G","H","I","J","K","L","M","N","O","P","Q","R","S","T","U","V","W","X","Y","Z","a","b","c","d","e","f","g","h","i","j","k","l","m","n","o","p","q","r","s","t","u","v","w","x","y","z","0","1","2","3","4","5","6","7","8","9","_",".","-","~"}

RECURSIVE Concat(_)
\* "".join(parts), the parts joined half by half
Concat(parts) ==
    IF parts = <<>> THEN <<>>
    ELSE IF Len(parts) = 1 THEN parts[1]
    ELSE LET h == Len(parts) \div 2
         IN  Concat(SubSeq(parts, 1, h)) \o Concat(SubSeq(parts, h + 1, Len(parts)))

\* str.lower() of one character
LowerChar(c) == IF Ord(c) >= 65 /\ Ord(c) <= 90 THEN Chr(Ord(c) + 32) ELSE c

\* str.lower()
Lower(s) == [i \in 1..Len(s) |-> LowerChar(s[i])]

\* urllib.parse.Quoter.__missing__: a byte is kept when safe, else it is
\* '%XX' with upper-case hexadecimal digits
QuoteChar(c, safe) ==
    IF c \in ALWAYS_SAFE \cup safe
    THEN <<c>>
    ELSE <<"%", HexDigits[(Ord(c) \div 16) + 1], HexDigits[(Ord(c) % 16) + 1]>>

\* urllib.parse.quote(string, safe)
Quote(s, safe) == Concat([i \in 1..Len(s) |-> QuoteChar(s[i], safe)])

\* str.replace(old, new) for one-character old and new
Replace(s, old, new) == [i \in 1..Len(s) |-> IF s[i] = old THEN new ELSE s[i]]

\* urllib.parse.quote_plus(string, safe): a string with a space is quoted
\* with the space kept, and every space then becomes '+'
QuotePlus(s, safe) ==
    IF \A i \in 1..Len(s) : s[i] # " "
    THEN Quote(s, safe)
    ELSE Replace(Quote(s, safe \cup {" "}), " ", "+")

RECURSIVE NatStr(_)
NatStr(n) == IF n < 10 THEN <<Digits[n + 1]>> ELSE NatStr(n \div 10) \o <<Digits[(n % 10) + 1]>>

\* str(date) of an int
Str(n) == IF n < 0 THEN <<"-">> \o NatStr(0 - n) ELSE NatStr(n)

\* a < b on Python str: lexicographic by code point
RECURSIVE StrLess(_, _)
StrLess(a, b) ==
    IF b = <<>> THEN FALSE
    ELSE IF a = <<>> THEN TRUE
    ELSE IF Head(a) = Head(b) THEN StrLess(Tail(a), Tail(b))
    ELSE Ord(Head(a)) < Ord(Head(b))

RECURSIVE Insert(_, _)
Insert(sorted, x) ==
    IF sorted = <<>> THEN <<x>>
    ELSE IF StrLess(x, Head(sorted)) THEN <<x>> \o sorted
    ELSE <<Head(sorted)>> \o Insert(Tail(sorted), x)

RECURSIVE Sort(_)
\* list.sort() on a list of str (stable, ascending)
Sort(l) == IF l = <<>> THEN <<>> ELSE Insert(Sort(SubSeq(l, 1, Len(l) - 1)), l[Len(l)])

\* a Python value: str, bytes or None
StrV(s) == [kind |-> "str", s |-> s]
BytesV(s) == [kind |-> "bytes", s |-> s]
NoneV == [kind |-> "None", s |-> <<>>]

\* "%s" % value: a str as it is, None as 'None', bytes as their repr b'...'
Format(v) ==
    IF v.kind = "str" THEN v.s
    ELSE IF v.kind = "None" THEN <<"N","o","n","e">>
    ELSE <<"b","'">> \o v.s \o <<"'">>

\* the key None of a dict (no str is this sequence)
NoneKey == <<"None">>

-----------------------------------------------------------------------------
(* APIRequest: class attributes and the pure helpers.                       *)

min_nonce_length == 24

max_nonce_length == 255

\* an alphabet that lacks the comma
NonceCharsNoComma == <<"a","b","c","d","e","f","g","h","i","j","k","l","m","n","o","p","q","r","s","t","u","v","w","x","y","z","A","B","C","D","E","F","G","H","I","J","K","L","M","N","O","P","Q","R","T","S","U","V","W","X","Y","Z","0","1","2","3","4","5","6","7","8","9","-","_","=",".","*","^">>

\* "abcdefghijklmnopqrstuvwxyzABCDEFGHIJKLMNOPQRTSUVWXYZ0123456789-_=.,*^"
nonce_allowable_chars == <<"a","b","c","d","e","f","g","h","i","j","k","l","m","n","o","p","q","r","s","t","u","v","w","x","y","z","A","B","C","D","E","F","G","H","I","J","K","L","M","N","O","P","Q","R","T","S","U","V","W","X","Y","Z","0","1","2","3","4","5","6","7","8","9","-","_","=",".",",","*","^">>

\* the keys _sort_params leaves out
ReservedKeys == {
    <<"a","p","i","_","k","e","y">>,
    <<"p","u","b","l","i","c","_","k","e","y">>,
    <<"a","p","i","_","s","i","g">>,
    <<"d","a","t","e">>,
    <<"n","o","n","c","e">>,
    <<"i","m","a","g","e","_","u","p","l","o","a","d">>}

IMAGE_URL == <<"i","m","a","g","e","_","u","r","l">>

\* value.decode("utf-8") when the value is bytes (ASCII here), else the value
Decode(value) == value.s

\* an image_url value that is passed through when it contains a '%'
ImageUrlValuePassThrough(value, lowercase) ==
    IF \E i \in 1..Len(Decode(value)) : Decode(value)[i] = "%"
    THEN Decode(value)
    ELSE LET url_escape == QuotePlus(Decode(value), {"~"})
         IN  IF lowercase THEN Lower(url_escape) ELSE url_escape

\* an image_url value that keeps its letter case also when lowercase is set
ImageUrlValueKeepCase(value, lowercase) == QuotePlus(Decode(value), {"~"})

\* the value _sort_params stores under image_url: quote_plus(value, "~"),
\* lowercased when lowercase is set
ImageUrlValue(value, lowercase) ==
    LET url_escape == QuotePlus(Decode(value), {"~"})
    IN  IF lowercase THEN Lower(url_escape) ELSE url_escape

\* a loop pass that compares the key with the reserved keys as it is spelt
SortParamsStepCaseSensitive(request_params, lowercase, i, acc) ==
    LET param == request_params[i].key
        value == request_params[i].value
    IN  IF param = NoneKey THEN acc
        ELSE IF param \in ReservedKeys THEN acc
        ELSE [query_params |->
                 (Lower(param) :>
                     (IF Lower(param) = IMAGE_URL
                      THEN StrV(ImageUrlValue(value, lowercase))
                      ELSE value))
                 @@ acc.query_params,
              params |-> Append(acc.params, Lower(param))]

\* one pass of the loop over request_params.keys(): what entry i does to
\* query_params (a dict, here a function) and to params (a list)
SortParamsStep(request_params, lowercase, i, acc) ==
    LET param == request_params[i].key
        value == request_params[i].value
    IN  IF param = NoneKey THEN acc
        ELSE IF Lower(param) \in ReservedKeys THEN acc
        ELSE [query_params |->
                 (Lower(param) :>
                     (IF Lower(param) = IMAGE_URL
                      THEN StrV(ImageUrlValue(value, lowercase))
                      ELSE value))
                 @@ acc.query_params,
              params |-> Append(acc.params, Lower(param))]

RECURSIVE SortParamsLoop(_, _, _)
\* the state of query_params and params after the first n entries
SortParamsLoop(request_params, lowercase, n) ==
    IF n = 0
    THEN [query_params |-> <<>>, params |-> <<>>]
    ELSE SortParamsStep(request_params, lowercase, n,
                        SortParamsLoop(request_params, lowercase, n - 1))

\* "%s=%s" % (param, query_params[param]) for each param of the sorted list
QueryParamPairs(query_params, params) ==
    [i \in 1..Len(params) |-> params[i] \o <<"=">> \o Format(query_params[params[i]])]

RECURSIVE Join(_, _)
\* sep.join(parts)
Join(sep, parts) ==
    IF parts = <<>> THEN <<>>
    ELSE IF Len(parts) = 1 THEN parts[1]
    ELSE parts[1] \o sep \o Join(sep, Tail(parts))

\* APIRequest._sort_params(request_params, lowercase)
SortParams(request_params, lowercase) ==
    LET acc == SortParamsLoop(request_params, lowercase, Len(request_params))
    IN  Join(<<"&">>, QueryParamPairs(acc.query_params, Sort(acc.params)))

-----------------------------------------------------------------------------
(* Signatures, the request URL and the nonce.                               *)

\* hmac.new(key, msg, sha256).hexdigest(): the digest is kept symbolic, a
\* term over its key and message, so two digests are equal exactly when
\* their keys and messages are
HmacSha256(key, msg) == [alg |-> "hmac-sha256", key |-> key, msg |-> msg]

\* APIRequest._generate_hmac_signature(to_sign)
GenerateHmacSignature(to_sign) == HmacSha256(private_key, to_sign)

\* "%s%s/" % (self.api_url, method)
BaseUrl(method) == api_url \o method \o <<"/">>

\* a to_sign that puts the nonce before the date
GetToSignNonceFirst(method, nonce, date, request_params) ==
    private_key \o <<"G","E","T">> \o nonce \o Str(date) \o BaseUrl(method)
        \o SortParams(request_params, TRUE)

\* a to_sign that leaves the nonce out
GetToSignNoNonce(method, nonce, date, request_params) ==
    private_key \o <<"G","E","T">> \o Str(date) \o BaseUrl(method)
        \o SortParams(request_params, TRUE)

\* a to_sign that sets the date off from the nonce with a "|"
GetToSignDelimited(method, nonce, date, request_params) ==
    private_key \o <<"G","E","T">> \o Str(date) \o <<"|">> \o nonce \o BaseUrl(method)
        \o SortParams(request_params, TRUE)

\* to_sign of _generate_get_hmac_signature
GetToSign(method, nonce, date, request_params) ==
    private_key \o <<"G","E","T">> \o Str(date) \o nonce \o BaseUrl(method)
        \o SortParams(request_params, TRUE)

\* "multipart/form-data; boundary=%s" % boundary
ContentType(boundary) ==
    <<"m","u","l","t","i","p","a","r","t","/","f","o","r","m","-","d","a","t","a",";"," ","b","o","u","n","d","a","r","y","=">> \o boundary

\* a to_sign that percent-encodes the filename and keeps its case
PostToSignKeepCase(method, boundary, nonce, date, filename, request_params) ==
    private_key \o <<"P","O","S","T">> \o ContentType(boundary)
        \o QuotePlus(filename, {}) \o Str(date) \o nonce
        \o BaseUrl(method) \o SortParams(request_params, TRUE)

\* to_sign of _generate_post_hmac_signature
PostToSign(method, boundary, nonce, date, filename, request_params) ==
    private_key \o <<"P","O","S","T">> \o ContentType(boundary)
        \o Lower(QuotePlus(filename, {})) \o Str(date) \o nonce
        \o BaseUrl(method) \o SortParams(request_params, TRUE)

\* a _request_url that appends "&" also before an empty parameter string
RequestUrlAlwaysAmp(method, nonce, date, api_signature, request_params) ==
    LET base_url == BaseUrl(method)
        extra_params == SortParams(request_params, FALSE)
    IN  IF public_key # StrV(<<>>)
        THEN base_url \o <<"?","a","p","i","_","k","e","y","=">> \o Format(public_key)
                 \o <<"&","d","a","t","e","=">> \o Str(date)
                 \o <<"&","n","o","n","c","e","=">> \o nonce
                 \o <<"&","a","p","i","_","s","i","g","=">> \o api_signature
                 \o <<"&">> \o extra_params
        ELSE base_url \o <<"?">> \o extra_params

\* a _request_url that writes the private key as the api_key
RequestUrlPrivateKey(method, nonce, date, api_signature, request_params) ==
    LET base_url == BaseUrl(method)
        request_url ==
            IF public_key # StrV(<<>>)
            THEN base_url \o <<"?","a","p","i","_","k","e","y","=">> \o private_key
                     \o <<"&","d","a","t","e","=">> \o Str(date)
                     \o <<"&","n","o","n","c","e","=">> \o nonce
                     \o <<"&","a","p","i","_","s","i","g","=">> \o api_signature
            ELSE base_url \o <<"?">>
        extra_params == SortParams(request_params, FALSE)
    IN  IF extra_params # <<>> /\ public_key # StrV(<<>>)
        THEN request_url \o <<"&">> \o extra_params
        ELSE request_url \o extra_params

\* APIRequest._request_url(method, nonce, date, api_signature, request_params)
RequestUrl(method, nonce, date, api_signature, request_params) ==
    LET base_url == BaseUrl(method)
        request_url ==
            IF public_key # StrV(<<>>)
            THEN base_url \o <<"?","a","p","i","_","k","e","y","=">> \o Format(public_key)
                     \o <<"&","d","a","t","e","=">> \o Str(date)
                     \o <<"&","n","o","n","c","e","=">> \o nonce
                     \o <<"&","a","p","i","_","s","i","g","=">> \o api_signature
            ELSE base_url \o <<"?">>
        extra_params == SortParams(request_params, FALSE)
    IN  IF extra_params # <<>> /\ public_key # StrV(<<>>)
        THEN request_url \o <<"&">> \o extra_params
        ELSE request_url \o extra_params

\* a nonce_length argument: an int, a float (n is the value in tenths), a
\* str or None
IntV(n) == [kind |-> "int", n |-> n, s |-> <<>>]
FloatV(tenths) == [kind |-> "float", n |-> tenths, s |-> <<>>]
LenStrV(s) == [kind |-> "str", n |-> 0, s |-> s]
LenNoneV == [kind |-> "None", n |-> 0, s |-> <<>>]

\* whether int(s) accepts the str s: digits after an optional sign
IsIntLiteral(s) ==
    LET body == IF s # <<>> /\ s[1] \in {"+", "-"} THEN Tail(s) ELSE s
    IN  /\ body # <<>>
        /\ \A i \in 1..Len(body) : \E d \in 1..10 : Digits[d] = body[i]

\* lines 50-61 of _generate_nonce and the range() of lines 66-69: "ok", or
\* the exception that leaves the method. int() raises TypeError on None and
\* ValueError on a str that is no number; str < int raises TypeError; the
\* ValueErrors become APIRequestError; range() raises TypeError on a float
NonceLengthCheck(nonce_length) ==
    IF nonce_length.kind = "None" THEN "TypeError"
    ELSE IF nonce_length.kind = "str"
    THEN IF IsIntLiteral(nonce_length.s) THEN "TypeError" ELSE "APIRequestError"
    ELSE IF nonce_length.kind = "float"
    THEN IF nonce_length.n < min_nonce_length * 10
            \/ nonce_length.n > max_nonce_length * 10
         THEN "APIRequestError"
         ELSE "TypeError"
    ELSE IF nonce_length.n < min_nonce_length \/ nonce_length.n > max_nonce_length
    THEN "APIRequestError"
    ELSE "ok"

\* a range that runs one index too far
NonceRangeOneMore(nonce_length) == 0..nonce_length.n

\* range(0, nonce_length): the indices the comprehension runs over
NonceRange(nonce_length) == 0..(nonce_length.n - 1)

\* rand.choice(seq) of a StrongRandom whose stream stands at entropy
RandChoice(seq, entropy) == seq[(entropy % Len(seq)) + 1]

\* the stream after one draw
NextEntropy(entropy) == (entropy * 31 + 17) % 211

-----------------------------------------------------------------------------
(* The inputs the operations are applied to.                                *)

\* most entries of a parameter mapping
MaxParams == 2

Entry(k, v) == [key |-> k, value |-> v]

\* the entries a parameter mapping is made of: plain keys, two keys that
\* differ only in case, both spellings of image_url, every reserved key,
\* the key None
ParamEntries == {
    Entry(<<"a">>, StrV(<<"1">>)),
    Entry(<<"a">>, StrV(<<"Z","z">>)),
    Entry(<<"B">>, StrV(<<"2">>)),
    Entry(<<"b">>, StrV(<<"3">>)),
    Entry(<<"i","m","a","g","e","_","u","r","l">>, StrV(<<"C","A","P","S","!","?">>)),
    Entry(<<"i","m","a","g","e","_","u","r","l">>, StrV(<<"a","%","2","1"," ","~">>)),
    Entry(<<"I","m","a","g","e","_","U","r","l">>, BytesV(<<"A","/","b">>)),
    Entry(NoneKey, StrV(<<"x">>)),
    Entry(<<"a","p","i","_","k","e","y">>, StrV(<<"k">>)),
    Entry(<<"P","u","b","l","i","c","_","K","e","y">>, StrV(<<"p">>)),
    Entry(<<"a","p","i","_","s","i","g">>, StrV(<<"s">>)),
    Entry(<<"D","a","t","e">>, StrV(<<"d">>)),
    Entry(<<"D","a","t","e">>, StrV(<<"e">>)),
    Entry(<<"N","O","N","C","E">>, StrV(<<"n">>)),
    Entry(<<"i","m","a","g","e","_","u","p","l","o","a","d">>, BytesV(<<"u">>))}

\* a dict holds a key once
DistinctKeys(m) == \A i, j \in 1..Len(m) : m[i].key = m[j].key => i = j

\* the parameter mappings: the dicts of at most MaxParams of these entries,
\* in every insertion order
ParamMappings ==
    UNION {{m \in [1..n -> ParamEntries] : DistinctKeys(m)} : n \in 0..MaxParams}

ApiUrls == {<<"h","t","t","p",":","/","/","h","/">>}

\* (public_key, private_key) of the instances: a public key, the empty
\* public key, no public key
Credentials == {
    [public_key |-> StrV(<<"p","u","b">>), private_key |-> <<"p","r","i","v">>],
    [public_key |-> StrV(<<>>), private_key |-> <<"p","r","i","v">>],
    [public_key |-> NoneV, private_key |-> <<"K","e","y","2">>]}

Methods == {<<"s","e","a","r","c","h">>, <<"i","m","a","g","e","_","c","o","u","n","t">>}

Nonces == {<<"a","_","n","o","n","c","e">>, <<"N","-","2">>}

Dates == {0, 1345821763}

Boundaries == {<<"=","=","7","=","=">>}

Filenames == {<<"f","i","l","e">>, <<"M","y"," ","F","i","l","e","~","1",".","J","P","G">>, <<"a","/","b","&","c","%">>}

\* the api_signature arguments of _request_url
Signatures == {<<"a","p","i","_","s","i","g">>, <<"0","f">>}

\* the nonce_length arguments of _generate_nonce
NonceLengths ==
    {IntV(n) : n \in {0 - 1, 0, 23, 24, 25, 36, 100, 254, 255, 256}}
        \cup {FloatV(245), FloatV(105), FloatV(3000)}
        \cup {LenStrV(<<"c","h","a","r","a","c","t","e","r">>), LenStrV(<<"3","0">>), LenNoneV}

\* seeds of the random source a call of _generate_nonce may start from
NumSeeds == 2

None == [kind |-> "None"]

-----------------------------------------------------------------------------
(* The state machine: an instance, and the calls made on it.                *)

\* APIRequest.__init__
Init ==
    /\ api_url \in ApiUrls
    /\ \E c \in Credentials :
          /\ public_key = c.public_key
          /\ private_key = c.private_key
    /\ op = "__init__"
    /\ pc = "idle"
    /\ args = None
    /\ frame = None
    /\ ret = None
    /\ raised = "none"
    /\ default_params = <<>>
    /\ api_key = <<>>
    /\ http_pool = <<>>

\* a call of _sort_params
SortParamsCall ==
    /\ pc = "idle"
    /\ \E m \in ParamMappings, lowercase \in BOOLEAN :
          /\ op' = "_sort_params"
          /\ pc' = "done"
          /\ args' = [request_params |-> m, lowercase |-> lowercase]
          /\ frame' = None
          /\ ret' = SortParams(m, lowercase)
          /\ raised' = "none"
    /\ UNCHANGED <<api_key, http_pool, api_url, public_key, private_key, default_params>>

\* a call of _generate_get_hmac_signature
GenerateGetHmacSignature ==
    /\ pc = "idle"
    /\ \E method \in Methods, nonce \in Nonces, date \in Dates, m \in ParamMappings :
          LET to_sign == GetToSign(method, nonce, date, m)
          IN  /\ op' = "_generate_get_hmac_signature"
              /\ pc' = "done"
              /\ args' = [method |-> method, nonce |-> nonce, date |-> date,
                          request_params |-> m]
              /\ frame' = [to_sign |-> to_sign]
              /\ ret' = GenerateHmacSignature(to_sign)
              /\ raised' = "none"
    /\ UNCHANGED <<api_key, http_pool, api_url, public_key, private_key, default_params>>

\* a call of _generate_post_hmac_signature
GeneratePostHmacSignature ==
    /\ pc = "idle"
    /\ \E method \in Methods, boundary \in Boundaries, nonce \in Nonces,
          date \in Dates, filename \in Filenames, m \in ParamMappings :
          LET to_sign == PostToSign(method, boundary, nonce, date, filename, m)
          IN  /\ op' = "_generate_post_hmac_signature"
              /\ pc' = "done"
              /\ args' = [method |-> method, boundary |-> boundary, nonce |-> nonce,
                          date |-> date, filename |-> filename, request_params |-> m]
              /\ frame' = [to_sign |-> to_sign]
              /\ ret' = GenerateHmacSignature(to_sign)
              /\ raised' = "none"
    /\ UNCHANGED <<api_key, http_pool, api_url, public_key, private_key, default_params>>

\* a call of _request_url
RequestUrlCall ==
    /\ pc = "idle"
    /\ \E method \in Methods, nonce \in Nonces, date \in Dates,
          api_signature \in Signatures, m \in ParamMappings :
          /\ op' = "_request_url"
          /\ pc' = "done"
          /\ args' = [method |-> method, nonce |-> nonce, date |-> date,
                      api_signature |-> api_signature, request_params |-> m]
          /\ frame' = None
          /\ ret' = RequestUrl(method, nonce, date, api_signature, m)
          /\ raised' = "none"
    /\ UNCHANGED <<api_key, http_pool, api_url, public_key, private_key, default_params>>

\* _generate_nonce is called: the length is checked, and the comprehension
\* starts on a fresh StrongRandom or the call raises
GenerateNonceCall ==
    /\ pc = "idle"
    /\ \E nonce_length \in NonceLengths, seed \in 0..(NumSeeds - 1) :
          LET outcome == NonceLengthCheck(nonce_length)
          IN  /\ op' = "_generate_nonce"
              /\ args' = [nonce_length |-> nonce_length]
              /\ ret' = None
              /\ IF outcome = "ok"
                 THEN /\ pc' = "loop"
                      /\ frame' = [i |-> 0, nonce |-> <<>>, entropy |-> seed]
                      /\ raised' = "none"
                 ELSE /\ pc' = "raised"
                      /\ frame' = None
                      /\ raised' = outcome
    /\ UNCHANGED <<api_key, http_pool, api_url, public_key, private_key, default_params>>

\* one iteration of the list comprehension of _generate_nonce
GenerateNonceStep ==
    /\ pc = "loop"
    /\ frame.i \in NonceRange(args.nonce_length)
    /\ frame' = [i |-> frame.i + 1,
                 nonce |-> Append(frame.nonce,
                                  <<RandChoice(nonce_allowable_chars, frame.entropy)>>),
                 entropy |-> NextEntropy(frame.entropy)]
    /\ UNCHANGED <<api_key, http_pool, api_url, public_key, private_key,
                   default_params, op, pc, args, ret, raised>>

\* the comprehension is exhausted: return "".join(nonce)
GenerateNonceReturn ==
    /\ pc = "loop"
    /\ frame.i \notin NonceRange(args.nonce_length)
    /\ pc' = "done"
    /\ ret' = Concat(frame.nonce)
    /\ UNCHANGED <<api_key, http_pool, api_url, public_key, private_key,
                   default_params, op, args, frame, raised>>

\* the caller has the result or the exception; the instance is called again
Return ==
    /\ pc \in {"done", "raised"}
    /\ op' = "__init__"
    /\ pc' = "idle"
    /\ args' = None
    /\ frame' = None
    /\ ret' = None
    /\ raised' = "none"
    /\ UNCHANGED <<api_key, http_pool, api_url, public_key, private_key, default_params>>

Next ==
    \/ SortParamsCall
    \/ GenerateGetHmacSignature
    \/ GeneratePostHmacSignature
    \/ RequestUrlCall
    \/ GenerateNonceCall
    \/ GenerateNonceStep
    \/ GenerateNonceReturn
    \/ Return

Spec == Init /\ [][Next]_vars

\* the calls of _generate_get_hmac_signature alone
NextGetSignature ==
    \/ GenerateGetHmacSignature
    \/ Return

SpecGetSignature == Init /\ [][NextGetSignature]_vars

\* the calls of the two signature methods
NextSignatures ==
    \/ GenerateGetHmacSignature
    \/ GeneratePostHmacSignature
    \/ Return

SpecSignatures == Init /\ [][NextSignatures]_vars

-----------------------------------------------------------------------------
(* get_request and post_request, called by the threads that share the       *)
(* instance. In SpecRequest and SpecThreads op, pc, args, frame, ret and    *)
(* raised are functions of the calling thread: each thread has its own      *)
(* call, with its own arguments and locals.                                 *)

\* the default of nonce_length
default_nonce_length == 24

RECURSIVE Split(_, _)
\* the fields of s between the occurrences of the character sep
Split(s, sep) ==
    IF \A i \in 1..Len(s) : s[i] # sep THEN <<s>>
    ELSE LET k == CHOOSE i \in 1..Len(s) : s[i] = sep /\ \A j \in 1..(i - 1) : s[j] # sep
         IN  <<SubSeq(s, 1, k - 1)>> \o Split(SubSeq(s, k + 1, Len(s)), sep)

\* sub in s, of two str
Occurs(sub, s) ==
    \E i \in 1..(Len(s) - Len(sub) + 1) : SubSeq(s, i, i + Len(sub) - 1) = sub

\* str.strip() of a printable str: the blanks at both ends are dropped
RECURSIVE LStrip(_)
LStrip(s) == IF s # <<>> /\ s[1] = " " THEN LStrip(Tail(s)) ELSE s

RECURSIVE RStrip(_)
RStrip(s) ==
    IF s # <<>> /\ s[Len(s)] = " " THEN RStrip(SubSeq(s, 1, Len(s) - 1)) ELSE s

Strip(s) == RStrip(LStrip(s))

\* a check that takes a blank filename for a name
FilenameMissingNoStrip(filename) ==
    filename.kind = "None" \/ Len(Format(filename)) = 0

\* filename is None or not len(str(filename).strip())
FilenameMissing(filename) ==
    filename.kind = "None" \/ Len(Strip(Format(filename))) = 0

\* the characters rand.choice draws for the indices of range(0, nonce_length)
RECURSIVE Draws(_, _)
Draws(n, entropy) ==
    IF n <= 0 THEN <<>>
    ELSE <<RandChoice(nonce_allowable_chars, entropy)>>
             \o Draws(n - 1, NextEntropy(entropy))

\* APIRequest._generate_nonce(nonce_length) on a StrongRandom that starts at
\* seed, run to its end: the nonce, or the exception
GenerateNonce(nonce_length, seed) ==
    LET outcome == NonceLengthCheck(nonce_length)
    IN  IF outcome = "ok"
        THEN [raised |-> "none",
              nonce |-> Draws(Cardinality(NonceRange(nonce_length)), seed)]
        ELSE [raised |-> outcome, nonce |-> <<>>]

\* signature.hexdigest() written into a str: one element of the sequence
\* stands for the hexadecimal digits of the digest, and names its key and
\* message
HexDigest(signature) == <<ToString(<<signature.alg, signature.key, signature.msg>>)>>

\* a _sort_params that pops the reserved keys off the dict it is given
ParamsAfterSortPopped(request_params) ==
    SelectSeq(request_params,
              LAMBDA e : e.key = NoneKey \/ Lower(e.key) \notin ReservedKeys)

\* the dict request_params after _sort_params has run on it: the method
\* reads keys() and request_params[param], and stores nothing
ParamsAfterSort(request_params) == request_params

\* the method name post_request hands to _generate_post_hmac_signature
PostSignedMethod(method) == <<"s","e","a","r","c","h">>

\* the locals of get_request and post_request before they are bound, and
\* how often each was made
NoLocals ==
    [boundary |-> <<>>, nonce |-> <<>>, date |-> 0, to_sign |-> <<>>,
     api_signature |-> None,
     made |-> [boundary |-> 0, nonce |-> 0, date |-> 0, api_signature |-> 0]]

\* a return that asks the clock again for the date of the URL
GetRequestReturnClockAgain(method, locals, request_params) ==
    RequestUrl(method, locals.nonce, locals.date + 1,
               HexDigest(locals.api_signature), request_params)

\* the URL get_request returns, and the first item post_request returns
GetRequestReturn(method, locals, request_params) ==
    RequestUrl(method, locals.nonce, locals.date,
               HexDigest(locals.api_signature), request_params)

\* the filename arguments of post_request
PostFilenames ==
    {NoneV, StrV(<<>>), StrV(<<" ">>), StrV(<<" "," ">>),
     StrV(<<"f","i","l","e">>), StrV(<<" ","M","y"," ","F",".","J","P","G"," ">>)}

\* the request_params arguments of get_request and post_request: the dicts
\* of one entry and some of two; two threads are given two of them
RequestMappings ==
    IF Cardinality(DOMAIN pc) = 1
    THEN {m \in ParamMappings : Len(m) <= 1}
             \cup {<<Entry(<<"i","m","a","g","e","_","u","r","l">>, StrV(<<"c","a","p","s","!","?">>))>>,
                   <<Entry(<<"a">>, StrV(<<"1">>)), Entry(<<"i","m","a","g","e","_","u","r","l">>, StrV(<<"C","A","P","S","!","?">>))>>,
                   <<Entry(<<"B">>, StrV(<<"2">>)), Entry(<<"b">>, StrV(<<"3">>))>>,
                   <<Entry(<<"a","p","i","_","k","e","y">>, StrV(<<"k">>)), Entry(<<"a">>, StrV(<<"Z","z">>))>>,
                   <<Entry(<<"a">>, StrV(<<"p","r","i","v">>))>>}
    ELSE {<<Entry(<<"a","p","i","_","k","e","y">>, StrV(<<"k">>)), Entry(<<"i","m","a","g","e","_","u","r","l">>, StrV(<<"C","A","P","S","!","?">>))>>}

\* request_params as the call binds it: the caller's dict, or the default
RequestParams ==
    {[omitted |-> FALSE, dict |-> m] : m \in RequestMappings}
        \cup {[omitted |-> TRUE, dict |-> default_params]}

\* the nonce_length arguments of the threads' calls of _generate_nonce
ThreadNonceLengths == {IntV(23), IntV(24), LenNoneV}

\* the instance, and the threads that call it
InitThreads(threads) ==
    /\ api_url \in ApiUrls
    /\ \E c \in Credentials :
          /\ public_key = c.public_key
          /\ private_key = c.private_key
    /\ op = [t \in threads |-> "__init__"]
    /\ pc = [t \in threads |-> "idle"]
    /\ args = [t \in threads |-> None]
    /\ frame = [t \in threads |-> None]
    /\ ret = [t \in threads |-> None]
    /\ raised = [t \in threads |-> "none"]
    /\ default_params = <<>>
    /\ api_key = <<>>
    /\ http_pool = <<>>

InitRequest == InitThreads({"t1"})

InitConcurrent == InitThreads({"t1", "t2"})

\* thread t calls _generate_nonce
GenerateNonceOf(t) ==
    /\ pc[t] = "idle"
    /\ \E nonce_length \in ThreadNonceLengths, seed \in 0..(NumSeeds - 1) :
          LET r == GenerateNonce(nonce_length, seed)
          IN  /\ op' = [op EXCEPT ![t] = "_generate_nonce"]
              /\ pc' = [pc EXCEPT ![t] = IF r.raised = "none" THEN "done" ELSE "raised"]
              /\ args' = [args EXCEPT ![t] = [nonce_length |-> nonce_length]]
              /\ frame' = [frame EXCEPT ![t] = None]
              /\ ret' = [ret EXCEPT ![t] = IF r.raised = "none" THEN r.nonce ELSE None]
              /\ raised' = [raised EXCEPT ![t] = r.raised]
    /\ UNCHANGED <<api_key, http_pool, api_url, public_key, private_key, default_params>>

\* thread t calls get_request
GetRequest(t) ==
    /\ pc[t] = "idle"
    /\ \E method \in Methods, p \in RequestParams :
          /\ op' = [op EXCEPT ![t] = "get_request"]
          /\ pc' = [pc EXCEPT ![t] = "nonce"]
          /\ args' = [args EXCEPT ![t] =
                         [method |-> method, filename |-> NoneV,
                          request_params |-> p.dict, omitted |-> p.omitted]]
          /\ frame' = [frame EXCEPT ![t] = NoLocals]
    /\ UNCHANGED <<api_key, http_pool, api_url, public_key, private_key,
                   default_params, ret, raised>>

\* thread t calls post_request: the filename is checked first
PostRequest(t) ==
    /\ pc[t] = "idle"
    /\ \E method \in Methods, filename \in PostFilenames, p \in RequestParams :
          /\ op' = [op EXCEPT ![t] = "post_request"]
          /\ args' = [args EXCEPT ![t] =
                         [method |-> method, filename |-> filename,
                          request_params |-> p.dict, omitted |-> p.omitted]]
          /\ frame' = [frame EXCEPT ![t] = NoLocals]
          /\ IF FilenameMissing(filename)
             THEN /\ pc' = [pc EXCEPT ![t] = "raised"]
                  /\ raised' = [raised EXCEPT ![t] = "APIRequestError"]
             ELSE /\ pc' = [pc EXCEPT ![t] = "boundary"]
                  /\ raised' = raised
    /\ UNCHANGED <<api_key, http_pool, api_url, public_key, private_key, default_params, ret>>

\* boundary = email.generator._make_boundary()
MakeBoundary(t) ==
    /\ pc[t] = "boundary"
    /\ \E boundary \in Boundaries :
          frame' = [frame EXCEPT ![t].boundary = boundary,
                                 ![t].made.boundary = @ + 1]
    /\ pc' = [pc EXCEPT ![t] = "nonce"]
    /\ UNCHANGED <<api_key, http_pool, api_url, public_key, private_key, default_params, op, args,
                   ret, raised>>

\* nonce = self._generate_nonce()
MakeNonce(t) ==
    /\ pc[t] = "nonce"
    /\ \E seed \in 0..(NumSeeds - 1) :
          LET r == GenerateNonce(IntV(default_nonce_length), seed)
          IN  IF r.raised = "none"
              THEN /\ frame' = [frame EXCEPT ![t].nonce = r.nonce,
                                             ![t].made.nonce = @ + 1]
                   /\ pc' = [pc EXCEPT ![t] = "date"]
                   /\ raised' = raised
              ELSE /\ frame' = frame
                   /\ pc' = [pc EXCEPT ![t] = "raised"]
                   /\ raised' = [raised EXCEPT ![t] = r.raised]
    /\ UNCHANGED <<api_key, http_pool, api_url, public_key, private_key,
                   default_params, op, args, ret>>

\* date = int(time.time())
ReadClock(t) ==
    /\ pc[t] = "date"
    /\ \E date \in Dates :
          frame' = [frame EXCEPT ![t].date = date, ![t].made.date = @ + 1]
    /\ pc' = [pc EXCEPT ![t] = "sign"]
    /\ UNCHANGED <<api_key, http_pool, api_url, public_key, private_key, default_params, op, args,
                   ret, raised>>

\* api_signature = self._generate_get_hmac_signature(...) in get_request,
\* self._generate_post_hmac_signature("search", ...) in post_request
Sign(t) ==
    /\ pc[t] = "sign"
    /\ LET a == args[t]
           f == frame[t]
           to_sign ==
               IF op[t] = "get_request"
               THEN GetToSign(a.method, f.nonce, f.date, a.request_params)
               ELSE PostToSign(PostSignedMethod(a.method), f.boundary, f.nonce,
                               f.date, a.filename.s, a.request_params)
           after == ParamsAfterSort(a.request_params)
       IN  /\ frame' = [frame EXCEPT ![t].to_sign = to_sign,
                                     ![t].api_signature = GenerateHmacSignature(to_sign),
                                     ![t].made.api_signature = @ + 1]
           /\ args' = [args EXCEPT ![t].request_params = after]
           /\ default_params' = IF a.omitted THEN after ELSE default_params
    /\ pc' = [pc EXCEPT ![t] = "url"]
    /\ UNCHANGED <<api_key, http_pool, api_url, public_key, private_key, op, ret, raised>>

\* return self._request_url(...), with the boundary in post_request
RenderUrl(t) ==
    /\ pc[t] = "url"
    /\ LET a == args[t]
           url == GetRequestReturn(a.method, frame[t], a.request_params)
           after == ParamsAfterSort(a.request_params)
       IN  /\ ret' = [ret EXCEPT ![t] =
                         IF op[t] = "get_request"
                         THEN url
                         ELSE <<url, frame[t].boundary>>]
           /\ args' = [args EXCEPT ![t].request_params = after]
           /\ default_params' = IF a.omitted THEN after ELSE default_params
    /\ pc' = [pc EXCEPT ![t] = "done"]
    /\ UNCHANGED <<api_key, http_pool, api_url, public_key, private_key, op, frame, raised>>

\* thread t has its result or its exception, and calls again
ReturnTo(t) ==
    /\ pc[t] \in {"done", "raised"}
    /\ op' = [op EXCEPT ![t] = "__init__"]
    /\ pc' = [pc EXCEPT ![t] = "idle"]
    /\ args' = [args EXCEPT ![t] = None]
    /\ frame' = [frame EXCEPT ![t] = None]
    /\ ret' = [ret EXCEPT ![t] = None]
    /\ raised' = [raised EXCEPT ![t] = "none"]
    /\ UNCHANGED <<api_key, http_pool, api_url, public_key, private_key, default_params>>

NextRequest ==
    \/ \E t \in DOMAIN pc : GenerateNonceOf(t)
    \/ \E t \in DOMAIN pc : GetRequest(t)
    \/ \E t \in DOMAIN pc : PostRequest(t)
    \/ \E t \in DOMAIN pc : MakeBoundary(t)
    \/ \E t \in DOMAIN pc : MakeNonce(t)
    \/ \E t \in DOMAIN pc : ReadClock(t)
    \/ \E t \in DOMAIN pc : Sign(t)
    \/ \E t \in DOMAIN pc : RenderUrl(t)
    \/ \E t \in DOMAIN pc : ReturnTo(t)

\* one thread calls the instance
SpecRequest == InitRequest /\ [][NextRequest]_vars

\* two threads call the instance, their steps interleaved
SpecThreads == InitConcurrent /\ [][NextRequest]_vars

-----------------------------------------------------------------------------
(* TinEyeAPIRequest._request and TinEyeResponse._from_dict of api.py. What  *)
(* json.loads returns is a tagged value: a dict is a function of its keys,  *)
(* a list a sequence, a str a sequence of characters.                       *)

JNull == [type |-> "None"]
JInt(n) == [type |-> "int", n |-> n]
JStr(s) == [type |-> "str", s |-> s]
JList(items) == [type |-> "list", items |-> items]
JDict(items) == [type |-> "dict", items |-> items]

\* http.client.OK
OK == 200

\* TinEyeAPIError(code, message)
TinEyeAPIError(code, message) ==
    [raised |-> "TinEyeAPIError", value |-> [code |-> code, message |-> message]]

\* an exception of Python itself
Raise(exception) == [raised |-> exception, value |-> None]

Returned(value) == [raised |-> "none", value |-> value]

\* d.get(key) of a dict
Get(d, key) == IF key \in DOMAIN d.items THEN d.items[key] ELSE JNull

\* bool(v)
Truthy(v) ==
    IF v.type = "None" THEN FALSE
    ELSE IF v.type = "int" THEN v.n # 0
    ELSE IF v.type = "str" THEN v.s # <<>>
    ELSE IF v.type = "list" THEN v.items # <<>>
    ELSE DOMAIN v.items # {}

\* key in v, for the key written as a str of the model (chars) and as a key
\* of a dict of the model (name): TypeError where v is no container
In(name, chars, v) ==
    IF v.type = "dict" THEN Returned(name \in DOMAIN v.items)
    ELSE IF v.type = "list"
    THEN Returned(\E i \in 1..Len(v.items) : v.items[i] = JStr(chars))
    ELSE IF v.type = "str" THEN Returned(Occurs(chars, v.s))
    ELSE Raise("TypeError")

\* the keys of a dict in the order the loop meets them
KeyOrder(d) ==
    CHOOSE order \in [1..Cardinality(DOMAIN d.items) -> DOMAIN d.items] :
        \A k \in DOMAIN d.items : \E i \in DOMAIN order : order[i] = k

\* what "for x in v" runs over: TypeError where v is not iterable
Iterate(v) ==
    IF v.type = "list" THEN Returned(v.items)
    ELSE IF v.type = "str" THEN Returned([i \in 1..Len(v.s) |-> JStr(<<v.s[i]>>)])
    ELSE IF v.type = "dict"
    THEN Returned([i \in 1..Cardinality(DOMAIN v.items) |-> JStr(KeyOrder(v)[i])])
    ELSE Raise("TypeError")

\* the first of the outcomes that raised, if one did
FirstRaised(outcomes) ==
    IF \E i \in 1..Len(outcomes) : outcomes[i].raised # "none"
    THEN LET k == CHOOSE i \in 1..Len(outcomes) :
                      /\ outcomes[i].raised # "none"
                      /\ \A j \in 1..(i - 1) : outcomes[j].raised = "none"
         IN  outcomes[k]
    ELSE Returned([i \in 1..Len(outcomes) |-> outcomes[i].value])

\* time.strptime(s, "%Y-%m-%d") and datetime(*crawl_date[:6]) of a date
\* written with four, two and two digits
ParseDate(v) ==
    IF v.type # "str" THEN Raise("TypeError")
    ELSE IF /\ Len(v.s) = 10
            /\ v.s[5] = "-" /\ v.s[8] = "-"
            /\ \A i \in {1, 2, 3, 4, 6, 7, 9, 10} : \E d \in 1..10 : Digits[d] = v.s[i]
    THEN Returned([datetime |-> v.s])
    ELSE Raise("ValueError")

\* datetime.min
DatetimeMin == [datetime |-> <<"0","0","0","1","-","0","1","-","0","1">>]

\* Backlink._from_dict(backlink_json)
BacklinkFromDict(backlink_json) ==
    IF backlink_json.type # "dict"
    THEN TinEyeAPIError(<<"5","0","0">>, "Please pass in a dictionary to _from_dict()")
    ELSE LET crawl_date ==
                 IF Truthy(Get(backlink_json, "crawl_date"))
                 THEN ParseDate(Get(backlink_json, "crawl_date"))
                 ELSE Returned(DatetimeMin)
         IN  IF crawl_date.raised # "none" THEN crawl_date
             ELSE Returned([url |-> Get(backlink_json, "url"),
                            backlink |-> Get(backlink_json, "backlink"),
                            crawl_date |-> crawl_date.value])

\* Match._from_dict(match_json)
MatchFromDict(match_json) ==
    IF match_json.type # "dict"
    THEN TinEyeAPIError(<<"5","0","0">>, "Please pass in a dictionary to _from_dict()")
    ELSE LET over ==
                 IF "backlinks" \in DOMAIN match_json.items
                 THEN Iterate(match_json.items["backlinks"])
                 ELSE Returned(<<>>)
             backlinks ==
                 IF over.raised # "none" THEN over
                 ELSE FirstRaised([i \in 1..Len(over.value) |->
                                      BacklinkFromDict(over.value[i])])
             tags == Get(match_json, "tags")
         IN  IF backlinks.raised # "none" THEN backlinks
             ELSE Returned([image_url |-> Get(match_json, "image_url"),
                            domain |-> Get(match_json, "domain"),
                            score |-> Get(match_json, "score"),
                            width |-> Get(match_json, "width"),
                            height |-> Get(match_json, "height"),
                            size |-> Get(match_json, "size"),
                            format |-> Get(match_json, "format"),
                            filesize |-> Get(match_json, "filesize"),
                            overlay |-> Get(match_json, "overlay"),
                            backlinks |-> backlinks.value,
                            tags |-> IF Truthy(tags) THEN tags ELSE JList(<<>>)])

\* the loop of TinEyeResponse._from_dict over results.get("matches")
MatchesOf(results) ==
    IF results.type # "dict" THEN Raise("AttributeError")
    ELSE LET over == Iterate(Get(results, "matches"))
         IN  IF over.raised # "none" THEN over
             ELSE FirstRaised([i \in 1..Len(over.value) |-> MatchFromDict(over.value[i])])

\* TinEyeResponse._from_dict(result_json)
FromDict(result_json) ==
    IF result_json.type # "dict"
    THEN TinEyeAPIError(<<"5","0","0">>, "Please pass in a dictionary to _from_dict()")
    ELSE LET results == Get(result_json, "results")
             has_matches ==
                 IF "results" \in DOMAIN result_json.items
                 THEN In("matches", <<"m","a","t","c","h","e","s">>, results)
                 ELSE Returned(FALSE)
             matches ==
                 IF has_matches.raised # "none" THEN has_matches
                 ELSE IF has_matches.value THEN MatchesOf(results)
                 ELSE Returned(<<>>)
             stats ==
                 IF "stats" \in DOMAIN result_json.items
                 THEN result_json.items["stats"]
                 ELSE JDict(<<>>)
         IN  IF matches.raised # "none" THEN matches
             ELSE Returned([matches |-> matches.value, stats |-> stats])

\* urljoin(self.api_url, "/rest/%s/" % method): the path replaces the one of
\* api_url, whose scheme and host stay
ApiUrlSearch(method) ==
    LET parts == Split(api_url, "/")
    IN  parts[1] \o <<"/","/">> \o parts[3]
            \o <<"/","r","e","s","t","/">> \o method \o <<"/">>

\* params after "if not params: params = {}" and params.update(kwargs)
ParamsOf(params, kwargs) ==
    LET given == IF params = None \/ DOMAIN params.items = {} THEN <<>> ELSE params.items
    IN  [k \in DOMAIN given \cup DOMAIN kwargs |->
            IF k \in DOMAIN kwargs THEN kwargs[k] ELSE given[k]]

\* the request _request hands to http_pool
RequestOf(method, fields) ==
    [method |-> IF "image_upload" \notin DOMAIN fields THEN "GET" ELSE "POST",
     url |-> ApiUrlSearch(method),
     fields |-> fields,
     headers |-> [x_api_key |-> api_key]]

\* lines 312-322 of _request, for the response http_pool gave: json.loads
\* raises ValueError on a body that is no JSON; obj.get raises
\* AttributeError and obj["code"] TypeError on an obj that is no dict, and
\* obj["code"] raises KeyError on a dict without the key
ResponseOutcome(response) ==
    IF ~response.decodes
    THEN TinEyeAPIError(<<"5","0","0">>, "Could not decode JSON")
    ELSE LET obj == response.obj
             raise ==
                 IF obj.type # "dict" THEN Raise("TypeError")
                 ELSE IF "code" \notin DOMAIN obj.items THEN Raise("KeyError")
                 ELSE TinEyeAPIError(obj.items["code"], Get(obj, "messages"))
         IN  IF response.status # OK THEN raise
             ELSE IF obj.type # "dict" THEN Raise("AttributeError")
             ELSE IF Get(obj, "code") # JInt(OK) THEN raise
             ELSE Returned(obj)

\* the methods, params and keyword arguments of the calls of _request
ApiMethods == {<<"s","e","a","r","c","h">>, <<"i","m","a","g","e","_","c","o","u","n","t">>}

ApiParams ==
    {None, JDict(<<>>), JDict([image_url |-> JStr(<<"u">>)]),
     JDict([image_upload |-> JStr(<<"d">>), limit |-> JInt(5)])}

ApiKwargs == {<<>>, [limit |-> JInt(10)]}

\* the responses of the server: a status, and a body that is no JSON or
\* decodes to a dict with or without code and messages, a list, a str, a
\* number or null
Responses ==
    {[status |-> status, decodes |-> FALSE, obj |-> JNull] : status \in {OK, 404}}
        \cup {[status |-> status, decodes |-> TRUE, obj |-> obj] :
                 status \in {OK, 404},
                 obj \in {JDict([code |-> JInt(OK), messages |-> JList(<<>>),
                                 results |-> JDict([matches |-> JList(<<>>)])]),
                          JDict([code |-> JInt(OK)]),
                          JDict([code |-> JInt(400),
                                 messages |-> JList(<<JStr(<<"b","a","d">>)>>)]),
                          JDict([code |-> JInt(500)]),
                          JDict([code |-> JStr(<<"2","0","0">>)]),
                          JDict([messages |-> JList(<<JStr(<<"x">>)>>)]),
                          JDict(<<>>),
                          JList(<<>>), JStr(<<"o","k">>), JInt(OK), JNull}}

\* two matches, as dicts
MatchJsons ==
    <<JDict([image_url |-> JStr(<<"o","n","e">>), score |-> JInt(89), width |-> JInt(350),
             height |-> JInt(297), backlinks |-> JList(<<>>)]),
      JDict([image_url |-> JStr(<<"t","w","o">>), height |-> JInt(200), tags |-> JList(<<>>),
             backlinks |-> JList(<<JDict([url |-> JStr(<<"u","r","l">>),
                                          crawl_date |-> JStr(<<"2","0","1","0","-","0","2","-","1","9">>),
                                          backlink |-> JStr(<<"b","a","c","k","l","i","n","k">>)])>>)])>>

\* the values under "matches"
MatchesValues ==
    {JList(<<>>), JList(<<MatchJsons[1]>>), JList(<<MatchJsons[1], MatchJsons[2]>>),
     JList(<<MatchJsons[2], MatchJsons[1]>>), JList(<<MatchJsons[1], JInt(5)>>),
     JList(<<JDict([backlinks |-> JList(<<JDict([crawl_date |-> JStr(<<"s","o","o","n">>)])>>)])>>),
     JNull, JDict([a |-> JInt(1)])}

\* the values under "results"
ResultsValues ==
    {JDict([matches |-> m]) : m \in MatchesValues}
        \cup {JDict(<<>>), JList(<<>>), JList(<<JStr(<<"m","a","t","c","h","e","s">>)>>), JStr(<<"n","o"," ","m","a","t","c","h","e","s">>),
              JNull}

\* the values under "stats"
StatsValues == {JDict([total_results |-> JInt(123)]), JDict(<<>>), JNull}

\* the arguments of TinEyeResponse._from_dict: what is no dict, and the dicts
\* with and without results and stats
ResultJsons ==
    {JList(<<>>), JStr(<<"r","e","s","u","l","t","s">>), JInt(5), JNull, JDict(<<>>)}
        \cup {JDict([results |-> r]) : r \in ResultsValues}
        \cup {JDict([stats |-> s]) : s \in StatsValues}
        \cup {JDict([results |-> r, stats |-> s]) : r \in ResultsValues, s \in StatsValues}

ApiKeys == {<<>>, <<"k","e","y">>}

\* TinEyeAPIRequest.__init__
InitApi ==
    /\ api_url \in {<<"h","t","t","p",":","/","/","h","/">>, <<"h","t","t","p","s",":","/","/","h","/","r","e","s","t","/">>}
    /\ api_key \in ApiKeys
    /\ http_pool = <<>>
    /\ public_key = NoneV
    /\ private_key = <<>>
    /\ default_params = <<>>
    /\ op = "__init__"
    /\ pc = "idle"
    /\ args = None
    /\ frame = None
    /\ ret = None
    /\ raised = "none"

\* _request is called and hands its one request to http_pool; a dict the
\* caller passed, if it is not empty, has the keyword arguments added
ApiRequest ==
    /\ pc = "idle"
    /\ \E method \in ApiMethods, params \in ApiParams, kwargs \in ApiKwargs :
          LET fields == ParamsOf(params, kwargs)
          IN  /\ op' = "_request"
              /\ pc' = "wait"
              /\ args' = [method |-> method,
                          params |-> IF params = None \/ DOMAIN params.items = {}
                                     THEN params
                                     ELSE JDict(fields),
                          kwargs |-> kwargs]
              /\ frame' = [params |-> fields, response |-> None]
              /\ http_pool' = Append(http_pool, RequestOf(method, fields))
    /\ UNCHANGED <<api_key, api_url, public_key, private_key, default_params,
                   ret, raised>>

\* the response is there: it is parsed and checked
ApiResponse ==
    /\ pc = "wait"
    /\ \E response \in Responses :
          LET outcome == ResponseOutcome(response)
          IN  /\ frame' = [frame EXCEPT !.response = response]
              /\ pc' = IF outcome.raised = "none" THEN "done" ELSE "raised"
              /\ ret' = outcome.value
              /\ raised' = outcome.raised
    /\ UNCHANGED <<api_key, http_pool, api_url, public_key, private_key,
                   default_params, op, args>>

\* http_pool gives no response, and its exception leaves _request
PoolRaises ==
    /\ pc = "wait"
    /\ pc' = "raised"
    /\ raised' = "MaxRetryError"
    /\ UNCHANGED <<api_key, http_pool, api_url, public_key, private_key,
                   default_params, op, args, frame, ret>>

\* a call of TinEyeResponse._from_dict
FromDictCall ==
    /\ pc = "idle"
    /\ \E result_json \in ResultJsons :
          LET outcome == FromDict(result_json)
          IN  /\ op' = "_from_dict"
              /\ pc' = IF outcome.raised = "none" THEN "done" ELSE "raised"
              /\ args' = [result_json |-> result_json]
              /\ frame' = None
              /\ ret' = outcome.value
              /\ raised' = outcome.raised
    /\ UNCHANGED <<api_key, http_pool, api_url, public_key, private_key,
                   default_params>>

\* the caller has the result or the exception, and calls again
ApiReturn ==
    /\ pc \in {"done", "raised"}
    /\ op' = "__init__"
    /\ pc' = "idle"
    /\ args' = None
    /\ frame' = None
    /\ ret' = None
    /\ raised' = "none"
    /\ http_pool' = <<>>
    /\ UNCHANGED <<api_key, api_url, public_key, private_key, default_params>>

NextApi ==
    \/ ApiRequest
    \/ ApiResponse
    \/ PoolRaises
    \/ FromDictCall
    \/ ApiReturn

SpecApi == InitApi /\ [][NextApi]_vars

-----------------------------------------------------------------------------
(* The properties.                                                          *)

\* s[from .. from + len - 1]
Slice(s, from, len) == SubSeq(s, from, from + len - 1)

IsDigit(c) == \E d \in 1..10 : Digits[d] = c

DigitValue(c) == (CHOOSE d \in 1..10 : Digits[d] = c) - 1

RECURSIVE DecimalValue(_)
\* the number a string of digits denotes
DecimalValue(s) ==
    IF s = <<>> THEN 0 ELSE DecimalValue(SubSeq(s, 1, Len(s) - 1)) * 10 + DigitValue(s[Len(s)])

\* s is the decimal string of the natural number n: digits, no leading zero
IsDecimalOf(s, n) ==
    /\ s # <<>>
    /\ \A i \in 1..Len(s) : IsDigit(s[i])
    /\ Len(s) > 1 => s[1] # "0"
    /\ DecimalValue(s) = n

\* s is prefix \o middle \o suffix, and the middle is the decimal string of n
IsAround(s, prefix, n, suffix) ==
    LET mid == Len(s) - Len(prefix) - Len(suffix)
    IN  /\ mid >= 1
        /\ Slice(s, 1, Len(prefix)) = prefix
        /\ Slice(s, Len(s) - Len(suffix) + 1, Len(suffix)) = suffix
        /\ IsDecimalOf(Slice(s, Len(prefix) + 1, mid), n)

\* the entries of a mapping under keys that are not reserved
RECURSIVE NonReserved(_)
NonReserved(m) ==
    IF m = <<>> THEN <<>>
    ELSE IF Head(m).key # NoneKey /\ Lower(Head(m).key) \in ReservedKeys
    THEN NonReserved(Tail(m))
    ELSE <<Head(m)>> \o NonReserved(Tail(m))

\* C1: _generate_get_hmac_signature signs, under private_key, exactly
\* private_key, "GET", the decimal string of date, nonce, api_url + method +
\* "/" and the canonical parameter string (folding on), in this order and
\* with nothing between them.
C1_GetSigningString ==
    (op = "_generate_get_hmac_signature" /\ pc = "done") =>
        /\ ret.alg = "hmac-sha256"
        /\ ret.key = private_key
        /\ IsAround(ret.msg,
                    private_key \o <<"G","E","T">>,
                    args.date,
                    args.nonce \o api_url \o args.method \o <<"/">>
                        \o SortParams(args.request_params, TRUE))

\* a GET signature over a date of several digits and a parameter string
\* that is not empty
C1_Witness ==
    /\ op = "_generate_get_hmac_signature"
    /\ pc = "done"
    /\ args.date > 9
    /\ SortParams(args.request_params, TRUE) # <<>>
    /\ Len(args.request_params) = 2

LowerHexDigits == <<"0","1","2","3","4","5","6","7","8","9","a","b","c","d","e","f">>

\* one character of a filename, percent-encoded and lowercased
FilenameChar(c) ==
    IF c = " " THEN <<"+">>
    ELSE IF c \in ALWAYS_SAFE THEN <<LowerChar(c)>>
    ELSE <<"%", LowerHexDigits[(Ord(c) \div 16) + 1], LowerHexDigits[(Ord(c) % 16) + 1]>>

\* C2: _generate_post_hmac_signature signs, under private_key, exactly
\* private_key, "POST", "multipart/form-data; boundary=" + boundary, the
\* percent-encoded and lowercased filename, the decimal string of date,
\* nonce, api_url + method + "/" and the canonical parameter string, in this
\* order and with nothing between them.
C2_PostSigningString ==
    (op = "_generate_post_hmac_signature" /\ pc = "done") =>
        /\ ret.alg = "hmac-sha256"
        /\ ret.key = private_key
        /\ IsAround(ret.msg,
                    private_key \o <<"P","O","S","T">>
                        \o <<"m","u","l","t","i","p","a","r","t","/","f","o","r","m","-","d","a","t","a",";"," ","b","o","u","n","d","a","r","y","=">> \o args.boundary
                        \o Concat([i \in 1..Len(args.filename) |->
                                      FilenameChar(args.filename[i])]),
                    args.date,
                    args.nonce \o api_url \o args.method \o <<"/">>
                        \o SortParams(args.request_params, TRUE))

\* a POST signature over a filename with upper-case letters, a space and a
\* character that is percent-encoded
C2_Witness ==
    /\ op = "_generate_post_hmac_signature"
    /\ pc = "done"
    /\ \E i \in 1..Len(args.filename) : args.filename[i] = " "
    /\ \E i \in 1..Len(args.filename) : args.filename[i] = "J"
    /\ SortParams(args.request_params, TRUE) # <<>>
    /\ args.date > 9

\* the key=value pairs of a canonical parameter string
PairsOf(s) == IF s = <<>> THEN <<>> ELSE Split(s, "&")

\* the key of a pair: what stands before its first "="
KeyOf(pair) == Split(pair, "=")[1]

\* the value of a pair: what stands after its first "="
ValueOf(pair) == SubSeq(pair, Len(KeyOf(pair)) + 2, Len(pair))

\* the same entries in every insertion order
Reorderings(m) == {[i \in 1..Len(m) |-> m[p[i]]] : p \in Permutations(1..Len(m))}

\* C3: _sort_params returns the same string for the same entries inserted
\* in any order, and the pairs of that string stand in ascending order of
\* the lowercased key.
C3_OrderIndependent ==
    (op = "_sort_params" /\ pc = "done") =>
        /\ \A m2 \in Reorderings(args.request_params) :
              SortParams(m2, args.lowercase) = ret
        /\ LET pairs == PairsOf(ret)
           IN  \A i \in 1..(Len(pairs) - 1) :
                  ~StrLess(KeyOf(pairs[i + 1]), KeyOf(pairs[i]))

\* C4: no pair of the output of _sort_params stands under a reserved key
\* (api_key, public_key, api_sig, date, nonce, image_upload, in any case),
\* and the entries under reserved keys change neither the canonical string
\* nor the GET or POST signature: each is what the mapping without these
\* entries gives.
C4_ReservedKeysExcluded ==
    /\ (op = "_sort_params" /\ pc = "done") =>
          /\ \A i \in 1..Len(PairsOf(ret)) :
                Lower(KeyOf(PairsOf(ret)[i])) \notin ReservedKeys
          /\ ret = SortParams(NonReserved(args.request_params), args.lowercase)
    /\ (op = "_generate_get_hmac_signature" /\ pc = "done") =>
          ret = GenerateHmacSignature(
                    GetToSign(args.method, args.nonce, args.date,
                              NonReserved(args.request_params)))
    /\ (op = "_generate_post_hmac_signature" /\ pc = "done") =>
          ret = GenerateHmacSignature(
                    PostToSign(args.method, args.boundary, args.nonce, args.date,
                               args.filename, NonReserved(args.request_params)))

\* _sort_params on a mapping with an entry under a reserved key spelt with
\* capitals and an entry under another key
C4_Witness ==
    /\ op = "_sort_params"
    /\ pc = "done"
    /\ Len(args.request_params) = 2
    /\ \E i \in 1..2 :
          /\ args.request_params[i].key # NoneKey
          /\ args.request_params[i].key \notin ReservedKeys
          /\ Lower(args.request_params[i].key) \in ReservedKeys
    /\ ret # <<>>

\* the indices of the entries under image_url, in any case
ImageUrlEntries(m) == {i \in 1..Len(m) : m[i].key # NoneKey /\ Lower(m[i].key) = IMAGE_URL}

\* the value of the image_url entry inserted last, as a str
LastImageUrlValue(m) ==
    Decode(m[CHOOSE i \in ImageUrlEntries(m) : \A j \in ImageUrlEntries(m) : j <= i].value)

\* the pairs of a canonical parameter string that stand under image_url
ImageUrlPairs(s) == {i \in 1..Len(PairsOf(s)) : KeyOf(PairsOf(s)[i]) = IMAGE_URL}

Count(s, c) == Cardinality({i \in 1..Len(s) : s[i] = c})

\* the occurrences of %25 in s
CountPercent25(s) ==
    Cardinality({i \in 1..(Len(s) - 2) : s[i] = "%" /\ s[i + 1] = "2" /\ s[i + 2] = "5"})

HexValue(c) ==
    IF IsDigit(c) THEN DigitValue(c)
    ELSE 9 + CHOOSE d \in 1..6 :
                 c \in {<<"a","b","c","d","e","f">>[d], <<"A","B","C","D","E","F">>[d]}

RECURSIVE UnquotePlus(_)
\* percent-decoding, once: '+' is a space and %XX the character of code XX
UnquotePlus(s) ==
    IF s = <<>> THEN <<>>
    ELSE IF s[1] = "+" THEN <<" ">> \o UnquotePlus(Tail(s))
    ELSE IF s[1] = "%" /\ Len(s) >= 3
    THEN <<Chr(HexValue(s[2]) * 16 + HexValue(s[3]))>> \o UnquotePlus(SubSeq(s, 4, Len(s)))
    ELSE <<s[1]>> \o UnquotePlus(Tail(s))

C6_ImageUrlEncoded ==
    (op = "_sort_params" /\ pc = "done") =>
        \A i \in ImageUrlEntries(args.request_params) :
            LET escaped == QuotePlus(Decode(args.request_params[i].value), {"~"})
            IN  \E p \in ImageUrlPairs(ret) :
                    ValueOf(PairsOf(ret)[p]) =
                        IF args.lowercase THEN Lower(escaped) ELSE escaped

\* C7: with a public key configured, _request_url returns api_url + method
\* + "/?api_key=" + public_key + "&date=" + date + "&nonce=" + nonce +
\* "&api_sig=" + signature, followed by "&" + the canonical parameters
\* exactly when these are not empty.
C7_SignedUrl ==
    (/\ op = "_request_url"
     /\ pc = "done"
     /\ public_key.kind = "str"
     /\ public_key.s # <<>>) =>
        LET canonical == SortParams(args.request_params, FALSE)
            tail == <<"&","n","o","n","c","e","=">> \o args.nonce \o <<"&","a","p","i","_","s","i","g","=">> \o args.api_signature
        IN  /\ IsAround(ret,
                        api_url \o args.method \o <<"/","?","a","p","i","_","k","e","y","=">> \o public_key.s \o <<"&","d","a","t","e","=">>,
                        args.date,
                        IF canonical = <<>> THEN tail ELSE tail \o <<"&">> \o canonical)
            /\ ret[Len(ret)] = "&" => canonical # <<>>

\* a signed URL for a mapping that holds entries, all under reserved keys:
\* the canonical parameters are empty and the URL ends with the signature
C7_Witness ==
    /\ op = "_request_url"
    /\ pc = "done"
    /\ public_key = StrV(<<"p","u","b">>)
    /\ Len(args.request_params) = 2
    /\ SortParams(args.request_params, FALSE) = <<>>

\* C8: without a public key (None or the empty string) _request_url
\* returns exactly api_url + method + "/?" + the canonical parameters.
C8_UnsignedUrl ==
    (/\ op = "_request_url"
     /\ pc = "done"
     /\ public_key \in {NoneV, StrV(<<>>)}) =>
        ret = api_url \o args.method \o <<"/","?">> \o SortParams(args.request_params, FALSE)

\* an integer nonce length within [min_nonce_length, max_nonce_length]
ValidLength(nonce_length) ==
    /\ nonce_length.kind = "int"
    /\ nonce_length.n >= min_nonce_length
    /\ nonce_length.n <= max_nonce_length

AllowableChars == {nonce_allowable_chars[i] : i \in 1..Len(nonce_allowable_chars)}

\* C9: for an integer length n with 24 <= n <= 255, _generate_nonce does
\* not raise, its loop has drawn i <= n characters after i passes and so
\* ends after n of them, and it returns a string of exactly n characters,
\* each one of nonce_allowable_chars.
C9_NonceOfLength ==
    (op = "_generate_nonce" /\ ValidLength(args.nonce_length)) =>
        /\ pc \in {"loop", "done"}
        /\ raised = "none"
        /\ pc = "loop" =>
              /\ frame.i <= args.nonce_length.n
              /\ Len(frame.nonce) = frame.i
        /\ pc = "done" =>
              /\ Len(ret) = args.nonce_length.n
              /\ \A i \in 1..Len(ret) : ret[i] \in AllowableChars

\* a nonce of the greatest length has been returned
C9_Witness ==
    /\ op = "_generate_nonce"
    /\ pc = "done"
    /\ args.nonce_length = IntV(max_nonce_length)
    /\ Len(ret) = max_nonce_length
    /\ Cardinality({ret[i] : i \in 1..Len(ret)}) > 1

\* C10: for a length below 24, above 255 or not an integer, _generate_nonce
\* raises APIRequestError, no other exception, and returns nothing.
C10_InvalidLengthRejected ==
    (op = "_generate_nonce" /\ ~ValidLength(args.nonce_length)) =>
        /\ pc = "raised"
        /\ raised = "APIRequestError"
        /\ ret = None


\* a filename that names nothing: None, or a str of no characters or of
\* blanks only
IsBlank(filename) ==
    \/ filename.kind = "None"
    \/ /\ filename.kind = "str"
       /\ \A i \in 1..Len(filename.s) : filename.s[i] = " "

NothingMade == [boundary |-> 0, nonce |-> 0, date |-> 0, api_signature |-> 0]

\* C11: a post_request whose filename is None, empty or blank raises
\* APIRequestError at once: the call is never at a later step, no boundary,
\* nonce, date or signature has been made, and nothing is returned
C11_MissingFilenameRejected ==
    \A t \in DOMAIN pc :
        (op[t] = "post_request" /\ IsBlank(args[t].filename))
            => /\ pc[t] = "raised"
               /\ raised[t] = "APIRequestError"
               /\ frame[t].made = NothingMade
               /\ frame[t].boundary = <<>>
               /\ ret[t] = None

C11_Witness ==
    \E t \in DOMAIN pc :
        /\ op[t] = "post_request"
        /\ args[t].filename = StrV(<<" "," ">>)
        /\ pc[t] = "raised"
        /\ raised[t] = "APIRequestError"

\* what stands after the first "?" of a URL
QueryOf(url) == SubSeq(url, Len(Split(url, "?")[1]) + 2, Len(url))

\* the value of the first pair of the query of url whose key is name
UrlField(url, name) ==
    LET pairs == PairsOf(QueryOf(url))
        k == CHOOSE i \in 1..Len(pairs) :
                 /\ KeyOf(pairs[i]) = name
                 /\ \A j \in 1..(i - 1) : KeyOf(pairs[j]) # name
    IN  ValueOf(pairs[k])

IsPrefix(p, s) == Len(p) <= Len(s) /\ SubSeq(s, 1, Len(p)) = p

\* the URL a finished get_request or post_request of thread t returned
UrlOf(t) == IF op[t] = "get_request" THEN ret[t] ELSE ret[t][1]

IsRequest(t) == op[t] \in {"get_request", "post_request"}

\* what the signing string of thread t starts with, up to the date
SignedHead(t) ==
    IF op[t] = "get_request"
    THEN private_key \o <<"G","E","T">>
    ELSE private_key \o <<"P","O","S","T">> \o <<"m","u","l","t","i","p","a","r","t","/","f","o","r","m","-","d","a","t","a",";"," ","b","o","u","n","d","a","r","y","=">> \o ret[t][2]
             \o Lower(QuotePlus(args[t].filename.s, {}))

\* C12: the date and the nonce written in a returned URL are the date and
\* the nonce of the string signed for the api_sig of that URL, the boundary
\* post_request returns is the one of the signed content type, and the call
\* made one nonce, one date, one signature and, in post_request, one boundary
C12_UrlCarriesSignedValues ==
    \A t \in DOMAIN pc :
        (IsRequest(t) /\ pc[t] = "done")
            => LET url == UrlOf(t)
                   signed == frame[t].api_signature.msg
               IN  /\ frame[t].made =
                          [boundary |-> IF op[t] = "post_request" THEN 1 ELSE 0,
                           nonce |-> 1, date |-> 1, api_signature |-> 1]
                   /\ IsPrefix(SignedHead(t), signed)
                   /\ public_key # StrV(<<>>)
                        => /\ UrlField(url, <<"a","p","i","_","s","i","g">>) = HexDigest(frame[t].api_signature)
                           /\ IsDecimalOf(UrlField(url, <<"d","a","t","e">>), frame[t].date)
                           /\ IsPrefix(SignedHead(t) \o UrlField(url, <<"d","a","t","e">>)
                                           \o UrlField(url, <<"n","o","n","c","e">>) \o api_url,
                                       signed)

C12_Witness ==
    \E t \in DOMAIN pc :
        /\ op[t] = "post_request"
        /\ pc[t] = "done"
        /\ public_key = StrV(<<"p","u","b">>)
        /\ UrlField(ret[t][1], <<"d","a","t","e">>) = <<"1","3","4","5","8","2","1","7","6","3">>
        /\ Len(UrlField(ret[t][1], <<"n","o","n","c","e">>)) = default_nonce_length
        /\ ret[t][2] \in Boundaries

\* the signature _generate_get_hmac_signature returns for these arguments
GetSignature(method, nonce, date, request_params) ==
    GenerateHmacSignature(GetToSign(method, nonce, date, request_params))

\* other nonces, dates and mappings to sign, some of them one character
\* away from the ones of the inputs
OtherNonces(nonce) == Nonces \cup {nonce \o <<"h">>, <<"1">> \o nonce, Tail(nonce)}

OtherDates(date) == Dates \cup {date + 1, date \div 10}

OtherMappings ==
    {<<>>, <<Entry(<<"a">>, StrV(<<"1">>))>>, <<Entry(<<"a">>, StrV(<<"Z","z">>))>>,
     <<Entry(<<"i","m","a","g","e","_","u","r","l">>, StrV(<<"C","A","P","S","!","?">>))>>,
     <<Entry(<<"a">>, StrV(<<"1">>)), Entry(<<"b">>, StrV(<<"3">>))>>}

\* C13: the signature of _generate_get_hmac_signature is a function of
\* private_key, the verb, date, nonce, the URL and the canonical parameter
\* string, and it changes when one of them changes and the others stay: for
\* another nonce, another date, another method (and so another URL), a
\* mapping with another canonical string, the verb POST, another key
C13_SignatureSensitive ==
    (op = "_generate_get_hmac_signature" /\ pc = "done")
        => LET a == args
           IN  /\ ret = GetSignature(a.method, a.nonce, a.date, a.request_params)
               /\ \A n \in OtherNonces(a.nonce) :
                      n # a.nonce
                          => GetSignature(a.method, n, a.date, a.request_params) # ret
               /\ \A d \in OtherDates(a.date) :
                      d # a.date
                          => GetSignature(a.method, a.nonce, d, a.request_params) # ret
               /\ \A m \in Methods :
                      m # a.method
                          => GetSignature(m, a.nonce, a.date, a.request_params) # ret
               /\ \A p \in OtherMappings :
                      SortParams(p, TRUE) # SortParams(a.request_params, TRUE)
                          => GetSignature(a.method, a.nonce, a.date, p) # ret
               /\ \A b \in Boundaries, f \in Filenames :
                      GenerateHmacSignature(
                          PostToSign(a.method, b, a.nonce, a.date, f, a.request_params)) # ret
               /\ \A c \in Credentials :
                      c.private_key # private_key
                          => LET rest == SubSeq(ret.msg, Len(private_key) + 1, Len(ret.msg))
                             IN  /\ c.private_key \o rest # ret.msg
                                 /\ HmacSha256(c.private_key, c.private_key \o rest) # ret

C13_Witness ==
    /\ op = "_generate_get_hmac_signature"
    /\ pc = "done"
    /\ args.nonce = <<"N","-","2">>
    /\ args.date = 0
    /\ args.request_params = <<Entry(<<"i","m","a","g","e","_","u","r","l">>, StrV(<<"C","A","P","S","!","?">>)), Entry(<<"a">>, StrV(<<"1">>))>>

\* C14: post_request signs the URL it targets: the path of the URL it
\* returns is api_url + method + "/", and that path is what follows the
\* date and the nonce in the string it signs
C14_PostSignsTargetUrl ==
    \A t \in DOMAIN pc :
        (op[t] = "post_request" /\ pc[t] = "done")
            => LET path == Split(ret[t][1], "?")[1]
               IN  /\ path = api_url \o args[t].method \o <<"/">>
                   /\ IsPrefix(SignedHead(t) \o Str(frame[t].date) \o frame[t].nonce
                                   \o path,
                               frame[t].api_signature.msg)

\* the private key stands in a key (as written or lowercased) or in a value
\* of the mapping
InParams(key, request_params) ==
    \E i \in 1..Len(request_params) :
        LET e == request_params[i]
        IN  \/ Occurs(key, Format(e.value))
            \/ e.key # NoneKey /\ (Occurs(key, e.key) \/ Occurs(key, Lower(e.key)))

\* C15: when neither the method nor the parameters hold the private key, no
\* part of a URL get_request or post_request returns is the private key:
\* not the path, not a key or a value of the query (api_key, date, nonce,
\* api_sig, the parameters), and the private key does not stand inside the
\* path or inside any field but the random nonce; the api_sig is the digest
\* keyed with it
C15_PrivateKeyNotInUrl ==
    \A t \in DOMAIN pc :
        (/\ IsRequest(t)
         /\ pc[t] = "done"
         /\ ~Occurs(private_key, args[t].method)
         /\ ~InParams(private_key, args[t].request_params))
            => LET url == UrlOf(t)
                   path == Split(url, "?")[1]
                   pairs == PairsOf(QueryOf(url))
               IN  /\ ~Occurs(private_key, path)
                   /\ QueryOf(url) # private_key
                   /\ \A i \in 1..Len(pairs) :
                          /\ pairs[i] # private_key
                          /\ ValueOf(pairs[i]) # private_key
                          /\ KeyOf(pairs[i]) # <<"n","o","n","c","e">>
                                => ~Occurs(private_key, pairs[i])
                   /\ public_key # StrV(<<>>)
                        => /\ frame[t].api_signature.key = private_key
                           /\ UrlField(url, <<"a","p","i","_","s","i","g">>) = HexDigest(frame[t].api_signature)

C15_Witness ==
    \E t \in DOMAIN pc :
        /\ op[t] = "get_request"
        /\ pc[t] = "done"
        /\ private_key = <<"p","r","i","v">>
        /\ public_key = StrV(<<"p","u","b">>)
        /\ args[t].request_params = <<Entry(<<"a">>, StrV(<<"1">>)), Entry(<<"i","m","a","g","e","_","u","r","l">>, StrV(<<"C","A","P","S","!","?">>))>>
        /\ ~InParams(private_key, args[t].request_params)
        /\ Len(PairsOf(QueryOf(ret[t]))) = 6

LowercaseLetters == {Chr(n) : n \in 97..122}

UppercaseLetters == {Chr(n) : n \in 65..90}

DecimalDigits == {Chr(n) : n \in 48..57}

NonceSymbols == {"-", "_", "=", ".", ",", "*", "^"}

\* the characters of the alphabet, as a set
NonceAlphabet == {nonce_allowable_chars[i] : i \in 1..Len(nonce_allowable_chars)}

\* the alphabet is the letters, the digits and the seven symbols, each once
AlphabetIsLettersDigitsSymbols ==
    /\ NonceAlphabet =
           LowercaseLetters \cup UppercaseLetters \cup DecimalDigits \cup NonceSymbols
    /\ Cardinality(NonceAlphabet) = Len(nonce_allowable_chars)

\* every nonce the threads hold is made of the alphabet
NoncesDrawnFromAlphabet ==
    \A t \in DOMAIN pc :
        /\ (op[t] = "_generate_nonce" /\ pc[t] = "done")
              => \A i \in 1..Len(ret[t]) : ret[t][i] \in NonceAlphabet
        /\ (IsRequest(t) /\ frame[t].made.nonce > 0)
              => \A i \in 1..Len(frame[t].nonce) : frame[t].nonce[i] \in NonceAlphabet

\* C16, as claimed: the nonce alphabet is the 26 lowercase letters, the 26
\* uppercase letters, the 10 digits and the symbols - _ = . , * ^, 70
\* distinct characters, and every nonce is drawn from it
C16_AlphabetOf70 ==
    /\ AlphabetIsLettersDigitsSymbols
    /\ Cardinality(NonceAlphabet) = 70
    /\ NoncesDrawnFromAlphabet

\* C16, amended: the nonce alphabet is the 26 lowercase letters, the 26
\* uppercase letters, the 10 digits and the 7 symbols - _ = . , * ^, which
\* are 69 distinct characters, and every nonce is drawn from it
C16_AlphabetOf69 ==
    /\ AlphabetIsLettersDigitsSymbols
    /\ Cardinality(LowercaseLetters) = 26
    /\ Cardinality(UppercaseLetters) = 26
    /\ Cardinality(DecimalDigits) = 10
    /\ Cardinality(NonceSymbols) = 7
    /\ Cardinality(NonceAlphabet) = 69
    /\ NoncesDrawnFromAlphabet

C16_Witness ==
    \E t \in DOMAIN pc :
        /\ op[t] = "_generate_nonce"
        /\ pc[t] = "done"
        /\ \E i, j, k \in 1..Len(ret[t]) :
              /\ ret[t][i] \in NonceSymbols
              /\ ret[t][j] \in DecimalDigits
              /\ ret[t][k] \in UppercaseLetters

\* what a finished get_request or post_request of thread t returns, worked
\* out from the instance, the arguments of t and the nonce, date and
\* boundary t made
ResultFromOwn(t) ==
    LET a == args[t]
        f == frame[t]
        api_signature ==
            HmacSha256(private_key,
                       IF op[t] = "get_request"
                       THEN GetToSign(a.method, f.nonce, f.date, a.request_params)
                       ELSE PostToSign(<<"s","e","a","r","c","h">>, f.boundary, f.nonce, f.date,
                                       a.filename.s, a.request_params))
        url == RequestUrl(a.method, f.nonce, f.date, HexDigest(api_signature),
                          a.request_params)
    IN  IF op[t] = "get_request" THEN url ELSE <<url, f.boundary>>

\* two finished calls with the same arguments, nonce, date and boundary
SameCall(t, u) ==
    /\ op[t] = op[u]
    /\ args[t] = args[u]
    /\ frame[t].nonce = frame[u].nonce
    /\ frame[t].date = frame[u].date
    /\ frame[t].boundary = frame[u].boundary

ResultsAreOwn ==
    /\ default_params = <<>>
    /\ \A t \in DOMAIN pc :
          (IsRequest(t) /\ pc[t] = "done") => ret[t] = ResultFromOwn(t)
    /\ \A t, u \in DOMAIN pc :
          (IsRequest(t) /\ IsRequest(u) /\ pc[t] = "done" /\ pc[u] = "done"
               /\ SameCall(t, u))
              => ret[t] = ret[u]

\* no step of the threads, a raising one included, writes the instance, the
\* default dict or the arguments of a running call
NothingShared ==
    /\ api_url' = api_url
    /\ public_key' = public_key
    /\ private_key' = private_key
    /\ default_params' = default_params
    /\ \A t \in DOMAIN pc :
          (pc[t] # "idle" /\ pc'[t] # "idle") => args'[t] = args[t]

\* C17: however the calls of _generate_nonce, get_request and post_request
\* of two threads interleave, api_url, public_key and private_key stay as
\* constructed, the default dict stays empty, the dict a caller passed stays
\* as passed, and what a call returns follows from its own arguments, nonce,
\* date and boundary
C17_Stateless == []ResultsAreOwn /\ [][NothingShared]_vars

C17_Witness ==
    /\ DOMAIN pc = {"t1", "t2"}
    /\ op["t1"] = "get_request"
    /\ pc["t1"] = "done"
    /\ args["t1"].omitted
    /\ op["t2"] = "post_request"
    /\ pc["t2"] = "sign"
    /\ args["t2"].request_params # <<>>
    /\ frame["t2"].nonce # frame["t1"].nonce

\* the code and the messages of a decoded body: those of a dict, and none of
\* a body that is no dict
BodyCode(obj) == IF obj.type = "dict" THEN Get(obj, "code") ELSE JNull

BodyMessages(obj) == IF obj.type = "dict" THEN Get(obj, "messages") ELSE JNull

\* _request has left, having had a response whose body decodes as JSON
RequestAnswered ==
    /\ op = "_request"
    /\ pc \in {"done", "raised"}
    /\ raised # "MaxRetryError"
    /\ frame.response.decodes

\* C18: _request returns the parsed object only when the HTTP status and the
\* code of the body are both 200; for every other response whose body decodes
\* as JSON, whatever its shape, it raises TinEyeAPIError with the code and the
\* messages of the body; and it hands exactly one request to the pool per call.
C18_RequestReturnsOrRaisesApiError ==
    RequestAnswered =>
        LET response == frame.response
            obj == response.obj
        IN  /\ Len(http_pool) = 1
            /\ IF response.status = OK /\ BodyCode(obj) = JInt(OK)
               THEN raised = "none" /\ ret = obj
               ELSE /\ raised = "TinEyeAPIError"
                    /\ ret = [code |-> BodyCode(obj), message |-> BodyMessages(obj)]

\* _from_dict has left, having been given a dictionary
FromDictOfDict ==
    /\ op = "_from_dict"
    /\ pc \in {"done", "raised"}
    /\ args.result_json.type = "dict"

\* the entries of results.matches of a dictionary: none where results or
\* matches is absent
MatchEntries(result_json) ==
    LET results == Get(result_json, "results")
    IN  IF results.type = "dict" /\ Get(results, "matches").type = "list"
        THEN Get(results, "matches").items
        ELSE <<>>

\* C19: for every dictionary TinEyeResponse._from_dict returns a response
\* whose matches hold one Match per entry of results.matches, in the same
\* order (none when results or matches is absent), and whose stats is the
\* stats of the input (an empty mapping when absent); for everything that is
\* no dictionary it raises TinEyeAPIError with the code "500".
C19_ResponseMapping ==
    /\ FromDictOfDict =>
           LET result_json == args.result_json
               entries == MatchEntries(result_json)
           IN  /\ raised = "none"
               /\ Len(ret.matches) = Len(entries)
               /\ \A i \in 1..Len(entries) :
                      /\ entries[i].type = "dict"
                      /\ ret.matches[i].image_url = Get(entries[i], "image_url")
                      /\ ret.matches[i].height = Get(entries[i], "height")
               /\ ret.stats = IF "stats" \in DOMAIN result_json.items
                              THEN result_json.items["stats"]
                              ELSE JDict(<<>>)
    /\ (/\ op = "_from_dict"
        /\ pc \in {"done", "raised"}
        /\ args.result_json.type # "dict") =>
           /\ raised = "TinEyeAPIError"
           /\ ret.code = <<"5","0","0">>

UpperChar(c) == IF Ord(c) >= 97 /\ Ord(c) <= 122 THEN Chr(Ord(c) - 32) ELSE c

Upper(s) == [i \in 1..Len(s) |-> UpperChar(s[i])]

IsSuffix(p, s) == Len(p) <= Len(s) /\ SubSeq(s, Len(s) - Len(p) + 1, Len(s)) = p

\* the mapping m with the values under image_url in lowercase, or in uppercase
WithImageUrlCase(m, lower) ==
    [i \in 1..Len(m) |->
        IF m[i].key # NoneKey /\ Lower(m[i].key) = IMAGE_URL
        THEN [m[i] EXCEPT !.value.s =
                 IF lower THEN Lower(m[i].value.s) ELSE Upper(m[i].value.s)]
        ELSE m[i]]

CaseVariants(m) == {WithImageUrlCase(m, TRUE), WithImageUrlCase(m, FALSE)}

\* the parameter string get_request writes in the URL
UrlParams(request_params) == SortParams(request_params, FALSE)

\* thread t has a URL from get_request
GetRequestDone(t) == op[t] = "get_request" /\ pc[t] = "done"

GetTuple(a) == <<a.date, a.nonce, a.method, SortParams(a.request_params, TRUE)>>

\* the fields of a POST signing string before the canonical parameter string
PostTuple(a) == <<a.boundary, a.filename, a.date, a.nonce, a.method>>

\* the same fields as they are written in it
PostWritten(a) ==
    <<a.boundary, Lower(QuotePlus(a.filename, {})), a.date, a.nonce, a.method>>

\* the arguments a with the last digit of the date moved to the nonce
DigitToNonce(a) ==
    [a EXCEPT !.date = a.date \div 10,
              !.nonce = <<Digits[(a.date % 10) + 1]>> \o a.nonce]

\* the arguments a with the first character of the filename moved to the
\* boundary
CharToBoundary(a) ==
    [a EXCEPT !.boundary = a.boundary \o <<Head(a.filename)>>,
              !.filename = Tail(a.filename)]

\* other arguments of _generate_get_hmac_signature: other dates, nonces,
\* methods and mappings, one or more of them at once
OtherGets(a) ==
    {[b EXCEPT !.request_params = m, !.method = method] :
        b \in {a, DigitToNonce(a), [a EXCEPT !.date = 0],
               [a EXCEPT !.nonce = <<"N","-","2">>],
               [a EXCEPT !.date = 0, !.nonce = <<"N","-","2">>]},
        m \in {a.request_params, <<>>},
        method \in Methods}

\* other arguments of _generate_post_hmac_signature with the same mapping:
\* other boundaries, filenames, dates, nonces and methods, one or more of
\* them at once
OtherPosts(a) ==
    {DigitToNonce(a), CharToBoundary(a), CharToBoundary(DigitToNonce(a)),
     [a EXCEPT !.filename = Upper(a.filename)],
     [a EXCEPT !.filename = Tail(a.filename), !.date = 0],
     [a EXCEPT !.date = 0],
     [a EXCEPT !.method = <<"s","e","a","r","c","h">>, !.nonce = <<"N","-","2">>],
     [a EXCEPT !.method = <<"i","m","a","g","e","_","c","o","u","n","t">>]}

GetSigned == op = "_generate_get_hmac_signature" /\ pc = "done"

\* the POST signing strings that are compared are those of the mappings of
\* at most this many entries: the canonical parameter string is their last
\* field, as it is in the GET signing strings
MaxPostParams == 1

PostSigned ==
    /\ op = "_generate_post_hmac_signature"
    /\ pc = "done"
    /\ Len(args.request_params) <= MaxPostParams

GetToSignOf(a) == GetToSign(a.method, a.nonce, a.date, a.request_params)

PostToSignOf(a) ==
    PostToSign(a.method, a.boundary, a.nonce, a.date, a.filename, a.request_params)

\* C21, as claimed: for a fixed private key and api_url the GET signing
\* string is an injective function of (timestamp, nonce, method, canonical
\* parameter string), so two requests that differ in any of them, also in
\* more than one at once, never share a signing string; likewise the POST
\* signing string of the tuple with the boundary and the filename.
C21_SigningStringInjective ==
    /\ GetSigned =>
           \A o \in OtherGets(args) :
               GetTuple(o) # GetTuple(args) => GetToSignOf(o) # frame.to_sign
    /\ PostSigned =>
           \A o \in OtherPosts(args) :
               PostTuple(o) # PostTuple(args) => PostToSignOf(o) # frame.to_sign

\* the fields that are written with no separator have the same widths
SameWidths(a, b) ==
    /\ Len(Str(a.date)) = Len(Str(b.date))
    /\ Len(a.nonce) = Len(b.nonce)
    /\ ~Occurs(<<"/">>, a.method) /\ ~Occurs(<<"/">>, b.method)

SamePostWidths(a, b) ==
    /\ SameWidths(a, b)
    /\ Len(a.boundary) = Len(b.boundary)
    /\ Len(QuotePlus(a.filename, {})) = Len(QuotePlus(b.filename, {}))

\* C21, amended: the fields are written one after the other with no
\* separator, so the signing string tells two requests apart when their
\* timestamps have the same number of digits and their nonces the same length
\* (in POST also the boundaries and the encoded filenames, which are written
\* in lowercase); a digit moved from the timestamp to the nonce, a character
\* moved from the filename to the boundary and a filename in another letter
\* case leave the signing string as it is.
C21_SigningStringInjectiveAtSameWidths ==
    /\ GetSigned =>
           /\ frame.to_sign = GetToSignOf(args)
           /\ \A o \in OtherGets(args) :
                  (SameWidths(o, args) /\ GetTuple(o) # GetTuple(args))
                      => GetToSignOf(o) # frame.to_sign
           /\ args.date >= 10 => GetToSignOf(DigitToNonce(args)) = frame.to_sign
    /\ PostSigned =>
           /\ frame.to_sign = PostToSignOf(args)
           /\ \A o \in OtherPosts(args) :
                  (SamePostWidths(o, args) /\ PostWritten(o) # PostWritten(args))
                      => PostToSignOf(o) # frame.to_sign
           /\ args.date >= 10 => PostToSignOf(DigitToNonce(args)) = frame.to_sign
           /\ Head(Lower(QuotePlus(args.filename, {}))) = Head(args.filename)
                  => PostToSignOf(CharToBoundary(args)) = frame.to_sign
           /\ PostToSignOf([args EXCEPT !.filename = Upper(args.filename)]) = frame.to_sign

\* a GET string is signed whose timestamp ends with a digit that the nonce
\* could as well start with, and a POST string whose filename has capitals
C21_Witness ==
    \/ /\ GetSigned
       /\ args.date = 1345821763
       /\ args.nonce = <<"a","_","n","o","n","c","e">>
       /\ GetTuple(DigitToNonce(args)) # GetTuple(args)
       /\ IsPrefix(private_key \o <<"G","E","T","1","3","4","5","8","2","1","7","6","3","a","_","n","o","n","c","e">>, frame.to_sign)
    \/ /\ PostSigned
       /\ args.filename = <<"M","y"," ","F","i","l","e","~","1",".","J","P","G">>
       /\ Upper(args.filename) # args.filename

\* the lowercased keys of a mapping that are not reserved
LoweredKeys(m) ==
    {Lower(m[i].key) : i \in {j \in 1..Len(m) : /\ m[j].key # NoneKey
                                                 /\ Lower(m[j].key) \notin ReservedKeys}}

\* C22: every lowercased key that is not reserved stands in exactly one
\* key=value pair of the output of _sort_params, also when two keys of the
\* mapping differ only in letter case, and there are as many pairs as there
\* are distinct lowercased keys that are not reserved.
C22_OnePairPerLoweredKey ==
    (op = "_sort_params" /\ pc = "done") =>
        LET keys == LoweredKeys(args.request_params)
            pairs == PairsOf(ret)
        IN  /\ Len(pairs) = Cardinality(keys)
            /\ \A k \in keys :
                   Cardinality({i \in 1..Len(pairs) : KeyOf(pairs[i]) = k}) = 1
====
